---- MODULE Spec2Model ----
(***************************************************************************)
(* Model of the mixed-layer box model's utility library:                   *)
(*   src/src/utils/data_input.py  (forcing loaders, alkalinity regression, *)
(*                                 initial-condition composer)             *)
(*   src/src/utils/constants.py   (gas-exchange formulas)                  *)
(*                                                                         *)
(* Numbers.  The code computes in float64.  Here a real number x is the    *)
(* integer round(x * SCALE), SCALE = 10^6 ("micro-units"), and every       *)
(* arithmetic step is carried out so that no intermediate leaves the       *)
(* 32-bit integer range.  The loop-year correction of load_real_data is    *)
(* kept exact instead: its values are numerators over the denominator      *)
(* days_in_year - 1 that numpy.linspace divides by.                        *)
(*                                                                         *)
(* State.  The library keeps nothing between calls: the state is the       *)
(* dataset file, the last call with its arguments and result, and the      *)
(* solver calls that call made.  The forcing loaders, the alkalinity and   *)
(* initial-condition functions, and the gas-exchange formulas share no     *)
(* state, and are specified as SpecForcing, SpecChemistry and              *)
(* SpecGasExchange, in each of which any call may follow any call.         *)
(***************************************************************************)
EXTENDS Integers, Sequences

VARIABLES
    df,            \* the historical dataset: column -> sequence of daily values
    op,            \* the library function called last ("none" before any call)
    args,          \* the arguments of that call
    ret,           \* what it returned, or the exception it raised
    solver_calls   \* the calls that call made to the external solver PyCO2SYS.sys

vars == <<df, op, args, ret, solver_calls>>

---------------------------------------------------------------------------
(* Fixed-point arithmetic *)

SCALE == 1000 * 1000

Abs(x) == IF x < 0 THEN -x ELSE x

Sgn(x) == IF x < 0 THEN -1 ELSE IF x > 0 THEN 1 ELSE 0

Min(a, b) == IF a <= b THEN a ELSE b

\* a / b for an integer b > 0, rounded to nearest (half away from zero)
RoundDiv(a, b) == Sgn(a) * ((Abs(a) + (b \div 2)) \div b)

\* whole units plus micro-units: Fix(7, 500000) is 7.5
Fix(units, micros) == units * SCALE + micros

\* 2^n
RECURSIVE Pow2(_)
Pow2(n) == IF n = 0 THEN 1 ELSE 2 * Pow2(n - 1)

\* the largest k >= 2 for which 2 * k * c stays a 32-bit integer, for c < 2^29
Radix(c) == (Pow2(30) - 1) \div c

\* <<q, r>> with a * b = q * c + r and 0 <= r < c, for a, b >= 0 and
\* 0 < c < 2^29, one digit of b in radix k at a time: the product a * b
\* itself is never formed
RECURSIVE MulDivRem(_, _, _, _)
MulDivRem(a, b, c, k) ==
    IF b = 0
    THEN <<0, 0>>
    ELSE LET h == MulDivRem(a, b \div k, c, k)
             d == b % k
             t == k * h[2] + d * (a % c)
         IN  <<k * h[1] + d * (a \div c) + (t \div c), t % c>>

\* a * b / c for c > 0, rounded to nearest
MulDiv(a, b, c) ==
    IF a = 0 \/ b = 0 \/ c <= 0
    THEN 0
    ELSE LET qr == MulDivRem(Abs(a), Abs(b), c, Radix(c))
         IN  Sgn(a) * Sgn(b) * (qr[1] + (IF 2 * qr[2] >= c THEN 1 ELSE 0))

\* x * y of two fixed-point numbers
MulFix(x, y) == MulDiv(x, y, SCALE)

\* x / y of two fixed-point numbers, y # 0
DivFix(x, y) == Sgn(y) * MulDiv(x, SCALE, Abs(y))

\* x * x
SqrFix(x) == MulFix(x, x)

\* 10^n
RECURSIVE Pow10(_)
Pow10(n) == IF n = 0 THEN 1 ELSE 10 * Pow10(n - 1)

\* the decimal literal digits / 10^places times the fixed-point number x:
\* Dec(36276, 4, x) is 3.6276 * x, and Dec(36276, 7, x) is the same in
\* milli-units for an x in micro-units
Dec(digits, places, x) == MulDiv(digits, x, Pow10(places))

---------------------------------------------------------------------------
(* Elementary functions of numpy, to within a few micro-units *)

PI == Fix(3, 141593)

LN2 == Fix(0, 693147)

\* the Taylor series of sine from the term of index j on; x2 is x * x
RECURSIVE SinSeries(_, _, _, _)
SinSeries(term, x2, j, last) ==
    IF j > last
    THEN 0
    ELSE term + SinSeries(-RoundDiv(MulFix(term, x2), (2 * j) * (2 * j + 1)),
                          x2, j + 1, last)

\* sin(x) for 0 <= x <= pi/2
SinQuadrant(x) == SinSeries(x, SqrFix(x), 1, 8)

\* np.sin(2 * np.pi * k / n) for integers k and n > 0: the angle is brought
\* into the first quadrant by the symmetries of the sine, r / (4n) of a turn
np_sin(k, n) ==
    LET q == 4 * (k % n)
        x(r) == RoundDiv(PI * r, 2 * n)
    IN  IF q <= n THEN SinQuadrant(x(q))
        ELSE IF q <= 2 * n THEN SinQuadrant(x(2 * n - q))
        ELSE IF q <= 3 * n THEN -SinQuadrant(x(q - 2 * n))
        ELSE -SinQuadrant(x(4 * n - q))

\* np.sqrt(x) for x > 0: Newton's iteration from above
RECURSIVE SqrtNewton(_, _, _)
SqrtNewton(x, s, n) ==
    IF n = 0 \/ s <= 0 THEN s ELSE SqrtNewton(x, (s + DivFix(x, s)) \div 2, n - 1)

np_sqrt(x) == SqrtNewton(x, (x + SCALE) \div 2, 8)

\* 2 * atanh(z) = 2 * (z + z^3/3 + z^5/5 + ...), from the term of index j on
RECURSIVE AtanhSeries(_, _, _, _)
AtanhSeries(zpow, z2, j, last) ==
    IF j > last
    THEN 0
    ELSE RoundDiv(2 * zpow, 2 * j + 1)
         + AtanhSeries(MulFix(zpow, z2), z2, j + 1, last)

\* np.log(x) for x > 0: halve or double x into [1, 2), then
\* log(x) = 2 * atanh((x - 1) / (x + 1))
RECURSIVE np_log(_)
np_log(x) ==
    IF x >= 2 * SCALE THEN LN2 + np_log(RoundDiv(x, 2))
    ELSE IF x < SCALE THEN np_log(2 * x) - LN2
    ELSE LET z == DivFix(x - SCALE, x + SCALE)
         IN  AtanhSeries(z, SqrFix(z), 0, 7)

\* the Taylor series of exp from the term of index j on
RECURSIVE ExpSeries(_, _, _, _)
ExpSeries(term, x, j, last) ==
    IF j > last
    THEN 0
    ELSE term + ExpSeries(RoundDiv(MulFix(term, x), j + 1), x, j + 1, last)

\* np.exp(x): x = m * ln 2 + r with |r| <= ln(2) / 2, exp(x) = 2^m * exp(r)
np_exp(x) ==
    LET m == RoundDiv(x, LN2)
        r == x - m * LN2
        e == ExpSeries(SCALE, r, 0, 10)
    IN  IF m >= 0 THEN e * Pow2(m) ELSE RoundDiv(e, Pow2(-m))

---------------------------------------------------------------------------
(* numpy arrays: a one-dimensional array is a sequence, and the element   *)
(* numpy calls a[i] is the sequence's element i + 1                       *)

At(a, i) == a[i + 1]

\* np.tile(a, reps) for reps >= 0
np_tile(a, reps) == [i \in 1..(Len(a) * reps) |-> a[((i - 1) % Len(a)) + 1]]

\* a[:n] for n >= 0
Slice(a, n) == SubSeq(a, 1, Min(n, Len(a)))

\* np.hstack((a, b))
np_hstack(a, b) == a \o b

\* np.linspace(start, stop, num) for num > 1, as numerators over num - 1:
\* element i is start + i * (stop - start) / (num - 1), and the last is stop
np_linspace(start, stop, num) ==
    [i \in 1..num |-> start * (num - 1) + (i - 1) * (stop - start)]

---------------------------------------------------------------------------
(* load_seasonal_forcings: values in micro-units (degrees C, PSU) *)

days_in_year == 365

temp_mean == 15

temp_amplitude == Fix(7, 500000)

temp_phase_shift == 180

\* faulty variant: the phase shift added instead of subtracted
temperature_one_year_mut ==
    [i \in 1..days_in_year |->
        temp_mean * SCALE
        + MulFix(temp_amplitude, np_sin((i - 1) + temp_phase_shift, days_in_year))]

temperature_one_year ==
    [i \in 1..days_in_year |->
        temp_mean * SCALE
        + MulFix(temp_amplitude, np_sin((i - 1) - temp_phase_shift, days_in_year))]

sal_mean == Fix(33, 500000)

sal_amplitude == Fix(0, 500000)

sal_phase_shift == 31

\* faulty variant: the phase shift subtracted instead of added
salinity_one_year_mut ==
    [i \in 1..days_in_year |->
        sal_mean
        + MulFix(sal_amplitude, np_sin((i - 1) - sal_phase_shift, days_in_year))]

salinity_one_year ==
    [i \in 1..days_in_year |->
        sal_mean
        + MulFix(sal_amplitude, np_sin((i - 1) + sal_phase_shift, days_in_year))]

load_seasonal_forcings(simulation_length_years) ==
    [temperature |-> np_tile(temperature_one_year, simulation_length_years),
     salinity    |-> np_tile(salinity_one_year, simulation_length_years)]

---------------------------------------------------------------------------
(* load_real_data.  The dataset's values are integers (hundredths of a    *)
(* degree or of a PSU); the returned series are numerators over LoopDen,  *)
(* the divisor of the linspace step, so that the correction is exact.     *)

LoopDen == days_in_year - 1

\* faulty variant: the slope runs to vec[364] - vec[0]
loop_slope_mut(vec) == np_linspace(0, At(vec, 364) - At(vec, 0), days_in_year)

\* the local slope of loop_years
loop_slope(vec) == np_linspace(0, At(vec, 0) - At(vec, 364), days_in_year)

\* faulty variant: the slope is subtracted
loop_corrected_mut(vec) ==
    LET slope == loop_slope(vec)
    IN  [i \in 1..Len(vec) |-> vec[i] * LoopDen - slope[i]]

\* the local vec of loop_years after "vec = vec + slope"
loop_corrected(vec) ==
    LET slope == loop_slope(vec)
    IN  [i \in 1..Len(vec) |-> vec[i] * LoopDen + slope[i]]

\* faulty variant: the first of the two years is left uncorrected
loop_years_mut(vec) ==
    np_hstack([i \in 1..Len(vec) |-> vec[i] * LoopDen], loop_corrected(vec))

loop_years(vec) ==
    LET corrected == loop_corrected(vec)
    IN  np_hstack(corrected, corrected)

\* df[prefix + name][:365].values
column(data, prefix, name) == Slice(data[<<prefix, name>>], days_in_year)

\* faulty variant: one copy of the two-year block per two years asked for
load_real_data_mut(data, prefix, simulation_length_years) ==
    LET temp_data  == loop_years(column(data, prefix, "temp"))
        salt_data  == loop_years(column(data, prefix, "salt"))
        total_days == simulation_length_years * days_in_year
    IN  [temperature |->
             Slice(np_tile(temp_data, total_days \div (2 * days_in_year)), total_days),
         salinity |->
             Slice(np_tile(salt_data, total_days \div (2 * days_in_year)), total_days)]

load_real_data(data, prefix, simulation_length_years) ==
    LET temp_data  == loop_years(column(data, prefix, "temp"))
        salt_data  == loop_years(column(data, prefix, "salt"))
        total_days == simulation_length_years * days_in_year
    IN  [temperature |->
             Slice(np_tile(temp_data, (total_days \div days_in_year) + 1), total_days),
         salinity |->
             Slice(np_tile(salt_data, (total_days \div days_in_year) + 1), total_days)]

---------------------------------------------------------------------------
(* calc_talk and compute_initial_conditions.  Salinity is in micro-units; *)
(* alkalinity, which exceeds 2147, is in milli-units.                     *)

Returned(value) == [raised |-> FALSE, value |-> value]

Raised(exception, message) ==
    [raised |-> TRUE, exception |-> exception, message |-> message]

THOUSAND == 10 * 10 * 10

\* micro-units to milli-units
Milli(x) == RoundDiv(x, THOUSAND)

\* faulty variant: an unknown region falls through to the last regression
calc_talk_mut(salt, pref) ==
    IF pref = "se" THEN Returned(Dec(487, 4, salt) + 608800)
    ELSE IF pref = "me" THEN Returned(Dec(466, 4, salt) + 670600)
    ELSE Returned(Dec(391, 4, salt) + 932700)

calc_talk(salt, pref) ==
    IF pref = "se" THEN Returned(Dec(487, 4, salt) + 608800)
    ELSE IF pref = "me" THEN Returned(Dec(466, 4, salt) + 670600)
    ELSE IF pref = "ne" THEN Returned(Dec(391, 4, salt) + 932700)
    ELSE Raised("ValueError", "Invalid region code. Use 'se', 'me', or 'ne'.")

\* faulty variant: the values in the order of the function's parameters
solver_kwargs_mut(pCO2, alk, temp, sal) ==
    [par1        |-> pCO2,
     par2        |-> alk,
     par1_type   |-> 1,
     par2_type   |-> 4,
     temperature |-> temp,
     salinity    |-> sal]

\* the keyword arguments compute_initial_conditions builds
solver_kwargs(pCO2, alk, temp, sal) ==
    [par1        |-> alk,
     par2        |-> pCO2,
     par1_type   |-> 1,
     par2_type   |-> 4,
     temperature |-> temp,
     salinity    |-> sal]

\* PyCO2SYS.sys: the external solver's result for a call, left uninterpreted
pyco2_sys(kwargs) == [solver |-> "PyCO2SYS.sys", kwargs |-> kwargs]

\* compute_initial_conditions: the solver calls it makes and what it returns
compute_initial_conditions(pCO2, alk, temp, sal) ==
    LET kwargs == solver_kwargs(pCO2, alk, temp, sal)
    IN  [calls |-> <<kwargs>>, result |-> pyco2_sys(kwargs)]

---------------------------------------------------------------------------
(* constants.py: gas exchange.  Temperatures, salinities, wind speeds,    *)
(* kappa, K0 and the piston velocity are in micro-units; the Schmidt      *)
(* number, whose terms exceed 2147, is in milli-units.                    *)

calculate_k0(temp_kelvin, salinity) ==
    LET temp_k100 == RoundDiv(temp_kelvin, 100)
        ln_k0 == -Fix(60, 240900)
                 + DivFix(Fix(93, 451700), temp_k100)
                 + Dec(233585, 4, np_log(temp_k100))
                 + MulFix(salinity,
                          Fix(0, 23517)
                          - Dec(23656, 6, temp_k100)
                          + Dec(47036, 7, SqrFix(temp_k100)))
    IN  np_exp(ln_k0)

\* faulty variant: two digits of the linear coefficient transposed (125.26)
schmidt_mut(temp_celsius) ==
    LET squared == SqrFix(temp_celsius)
        cubed   == MulFix(Milli(squared), temp_celsius)
    IN  2073100
        - Dec(12526, 5, temp_celsius)
        + Dec(36276, 7, squared)
        - Dec(43219, 6, cubed)

schmidt(temp_celsius) ==
    LET squared == SqrFix(temp_celsius)
        cubed   == MulFix(Milli(squared), temp_celsius)
    IN  2073100
        - Dec(12562, 5, temp_celsius)
        + Dec(36276, 7, squared)
        - Dec(43219, 6, cubed)

calculate_kappa(wind_speed, temp_celsius) ==
    LET sc    == schmidt(temp_celsius)
        ratio == DivFix(sc, 660 * THOUSAND)
    IN  MulFix(Dec(251, 3, SqrFix(wind_speed)), DivFix(SCALE, np_sqrt(ratio)))

\* faulty variant: k0 is given the Kelvin temperature with an offset of 273
piston_velocity_mut(wind_speed, temp_celsius, salinity) ==
    MulFix(Dec(24, 2, calculate_kappa(wind_speed, temp_celsius)),
           calculate_k0(temp_celsius + Fix(273, 0), salinity))

piston_velocity(wind_speed, temp_celsius, salinity) ==
    MulFix(Dec(24, 2, calculate_kappa(wind_speed, temp_celsius)),
           calculate_k0(temp_celsius + Fix(273, 150000), salinity))

---------------------------------------------------------------------------
(* The inputs the model draws from *)

MaxYears == 3

Years == 0..MaxYears

Prefixes == {"se", "ne"}

\* (first, last) values of a year of temperature: level, warming, cooling
TempEnds == {<<1200, 1200>>, <<500, 1200>>, <<2050, 500>>}

\* (first, last) values of a year of salinity
SaltEnds == {<<3350, 3350>>, <<3100, 3350>>, <<3420, 3390>>}

DatasetRows == {days_in_year, days_in_year + 1}

\* a column of daily values that starts at first, is last on day 364 and
\* wanders in between; a row past the year, if any, holds its own value
Series(first, last, step, rows) ==
    [i \in 1..rows |->
        IF i = 1 THEN first
        ELSE IF i = days_in_year THEN last
        ELSE IF i > days_in_year THEN first + last + 1
        ELSE first + ((i * step) % 97) - 48]

Dataset(t, s, rows) ==
    [c \in Prefixes \X {"temp", "salt"} |->
        IF c = <<"se", "temp">> THEN Series(t[1], t[2], 7, rows)
        ELSE IF c = <<"se", "salt">> THEN Series(s[1], s[2], 3, rows)
        ELSE IF c = <<"ne", "temp">> THEN Series(t[2] - 300, t[1] - 300, 11, rows)
        ELSE Series(s[2] + 20, s[1] + 20, 5, rows)]

Datasets ==
    {Dataset(t, s, rows) : t \in TempEnds, s \in SaltEnds, rows \in DatasetRows}

\* region codes: the three calc_talk knows and three it does not
RegionCodes == {"se", "me", "ne", "SE", "gom", ""}

\* salinities handed to calc_talk, micro-units: -1 to 40 PSU and 33.5 PSU
TalkSalinities == {Fix(k, 0) : k \in -1..40} \cup {Fix(33, 500000)}

\* arguments of compute_initial_conditions, milli-units
PCO2Values == {280000, 395000, 2300000}

AlkValues == {2300000, 2400000, 395000}

TempValues == {10000, 15000, 20000}

SalValues == {15000, 30000, 33500, 35000}

\* Celsius temperatures (0 to 30 in steps of 5), salinities and wind
\* speeds handed to the gas-exchange formulas, micro-units
Temperatures == {Fix(5 * k, 0) : k \in 0..6}

Salinities == {0, Fix(30, 0), Fix(33, 500000), Fix(35, 0)}

WindSpeeds == {0, Fix(7, 0), Fix(10, 500000)}

---------------------------------------------------------------------------
(* The forcing loaders as a state machine: any call, in any order *)

InitForcing ==
    /\ df \in Datasets
    /\ op = "none"
    /\ args = <<>>
    /\ ret = <<>>
    /\ solver_calls = <<>>

Call_load_seasonal_forcings ==
    \E n \in Years :
        /\ op' = "load_seasonal_forcings"
        /\ args' = [simulation_length_years |-> n]
        /\ ret' = load_seasonal_forcings(n)
        /\ solver_calls' = <<>>
        /\ UNCHANGED df

Call_load_real_data ==
    \E p \in Prefixes, n \in Years :
        /\ op' = "load_real_data"
        /\ args' = [prefix |-> p, simulation_length_years |-> n]
        /\ ret' = load_real_data(df, p, n)
        /\ solver_calls' = <<>>
        /\ UNCHANGED df

NextForcing == Call_load_seasonal_forcings \/ Call_load_real_data

SpecForcing == InitForcing /\ [][NextForcing]_vars

---------------------------------------------------------------------------
(* Properties of the forcing loaders *)

IsForcingCall == op \in {"load_seasonal_forcings", "load_real_data"}

\* the year's slice of the dataset column a load_real_data call read
InputColumn(name) == column(df, args.prefix, name)

\* s repeats itself every days_in_year entries
Periodic(s) ==
    \A i \in 1..(Len(s) - days_in_year) : s[i + days_in_year] = s[i]

\* C1: both loaders return a temperature and a salinity series of exactly
\* simulation_length_years * 365 entries, for every year count from 0 up,
\* odd or even; load_real_data gets there by tiling its 730-entry block
\* (total_days // 365) + 1 times, which is never too short to slice from
C1_OutputLength ==
    IsForcingCall =>
        LET total_days == args.simulation_length_years * days_in_year
        IN  /\ Len(ret.temperature) = total_days
            /\ Len(ret.salinity) = total_days
            /\ op = "load_real_data" =>
                 LET block == loop_years(InputColumn("temp"))
                     tiled == np_tile(block, (total_days \div days_in_year) + 1)
                 IN  /\ Len(block) = 2 * days_in_year
                     /\ Len(tiled) >= total_days
                     /\ ret.temperature = Slice(tiled, total_days)

C1_Witness ==
    /\ op = "load_real_data"
    /\ args.simulation_length_years = 3
    /\ Len(ret.temperature) = 3 * days_in_year
    /\ Len(ret.salinity) = 3 * days_in_year

\* C10: every series either loader returns has period 365: entry i + 365
\* equals entry i wherever both exist
C10_Periodic ==
    IsForcingCall => Periodic(ret.temperature) /\ Periodic(ret.salinity)

C10_Witness ==
    /\ op = "load_real_data"
    /\ args.simulation_length_years = 3
    /\ At(InputColumn("temp"), 0) # At(InputColumn("temp"), 364)
    /\ At(ret.temperature, 1) # At(ret.temperature, 0)
    /\ At(ret.temperature, 2 * days_in_year + 1) = At(ret.temperature, 1)

\* the loop correction as seen in a returned series out, for the column vec
\* it was made from: day 0 is vec[0], day 364 is vec[0] too, day i is moved
\* by i * (vec[0] - vec[364]) / 364, and no year boundary has a step
LoopClosed(out, vec) ==
    /\ At(out, 0) = At(vec, 0) * LoopDen
    /\ At(out, 364) = At(vec, 0) * LoopDen
    /\ \A i \in 0..364 :
           At(out, i) - At(vec, i) * LoopDen = i * (At(vec, 0) - At(vec, 364))
    /\ \A k \in 0..(Len(out) \div days_in_year) :
           days_in_year * k + days_in_year < Len(out) =>
               At(out, days_in_year * k + days_in_year)
                   = At(out, days_in_year * k + 364)

C6_AsStated ==
    (op = "load_real_data" /\ args.simulation_length_years >= 1) =>
        At(ret.temperature, 0)
            = At(ret.temperature, 364) + At(loop_slope(InputColumn("temp")), 364)

\* C6, amended: corrected_vec[0] = corrected_vec[364], and corrected_vec[364]
\* is the uncorrected vec[364] + slope[364]
C6_EndpointsMeet ==
    (op = "load_real_data" /\ args.simulation_length_years >= 1) =>
        /\ At(ret.temperature, 0) = At(ret.temperature, 364)
        /\ At(ret.temperature, 364)
               = At(InputColumn("temp"), 364) * LoopDen
                 + At(loop_slope(InputColumn("temp")), 364)
        /\ At(ret.salinity, 0) = At(ret.salinity, 364)
        /\ At(ret.salinity, 364)
               = At(InputColumn("salt"), 364) * LoopDen
                 + At(loop_slope(InputColumn("salt")), 364)

C6_Witness ==
    /\ op = "load_real_data"
    /\ args.simulation_length_years = 1
    /\ At(loop_slope(InputColumn("temp")), 364) # 0
    /\ At(ret.temperature, 0) = At(ret.temperature, 364)

\* day d of year y of a seasonal series
DayOfYear(s, y, d) == At(s, days_in_year * y + d)

YearsOf(s) == 0..((Len(s) \div days_in_year) - 1)

---------------------------------------------------------------------------
(* calc_talk and compute_initial_conditions as a state machine *)

DefaultDataset == Dataset(<<1200, 1200>>, <<3350, 3350>>, days_in_year)

InitChemistry ==
    /\ df = DefaultDataset
    /\ op = "none"
    /\ args = <<>>
    /\ ret = <<>>
    /\ solver_calls = <<>>

Call_calc_talk ==
    \E salt \in TalkSalinities, pref \in RegionCodes :
        /\ op' = "calc_talk"
        /\ args' = [salt |-> salt, pref |-> pref]
        /\ ret' = calc_talk(salt, pref)
        /\ solver_calls' = <<>>
        /\ UNCHANGED df

Call_compute_initial_conditions ==
    \E pCO2 \in PCO2Values, alk \in AlkValues, temp \in TempValues, sal \in SalValues :
        LET done == compute_initial_conditions(pCO2, alk, temp, sal)
        IN  /\ op' = "compute_initial_conditions"
            /\ args' = [pCO2 |-> pCO2, alk |-> alk, temp |-> temp, sal |-> sal]
            /\ ret' = done.result
            /\ solver_calls' = done.calls
            /\ UNCHANGED df

NextChemistry == Call_calc_talk \/ Call_compute_initial_conditions

SpecChemistry == InitChemistry /\ [][NextChemistry]_vars

---------------------------------------------------------------------------
(* The gas-exchange formulas as a state machine *)

Call_schmidt ==
    \E t \in Temperatures :
        /\ op' = "schmidt"
        /\ args' = [temp_celsius |-> t]
        /\ ret' = schmidt(t)
        /\ solver_calls' = <<>>
        /\ UNCHANGED df

Call_calculate_kappa ==
    \E w \in WindSpeeds, t \in Temperatures :
        /\ op' = "calculate_kappa"
        /\ args' = [wind_speed |-> w, temp_celsius |-> t]
        /\ ret' = calculate_kappa(w, t)
        /\ solver_calls' = <<>>
        /\ UNCHANGED df

Call_calculate_k0 ==
    \E t \in Temperatures, s \in Salinities :
        /\ op' = "calculate_k0"
        /\ args' = [temp_kelvin |-> t + Fix(273, 150000), salinity |-> s]
        /\ ret' = calculate_k0(t + Fix(273, 150000), s)
        /\ solver_calls' = <<>>
        /\ UNCHANGED df

Call_piston_velocity ==
    \E w \in WindSpeeds, t \in Temperatures, s \in Salinities :
        /\ op' = "piston_velocity"
        /\ args' = [wind_speed |-> w, temp_celsius |-> t, salinity |-> s]
        /\ ret' = piston_velocity(w, t, s)
        /\ solver_calls' = <<>>
        /\ UNCHANGED df

NextGasExchange ==
    \/ Call_schmidt
    \/ Call_calculate_kappa
    \/ Call_calculate_k0
    \/ Call_piston_velocity

SpecGasExchange == InitChemistry /\ [][NextGasExchange]_vars

---------------------------------------------------------------------------
(* Properties of calc_talk and compute_initial_conditions *)

\* a salinity in tenths of a PSU (the salinities drawn are whole tenths)
Tenths(salt) == salt \div (SCALE \div 10)

\* C2: calc_talk raises ValueError, with the message that names 'se', 'me'
\* and 'ne', exactly when pref is none of these three codes; for each of
\* the three it returns 48.7 * salt + 608.8, 46.6 * salt + 670.6 or
\* 39.1 * salt + 932.7 (here in milli-units), whatever the salinity
C2_RaisesIffUnknownRegion ==
    op = "calc_talk" =>
        /\ ret.raised <=> args.pref \notin {"se", "me", "ne"}
        /\ ret.raised =>
             /\ ret.exception = "ValueError"
             /\ ret.message = "Invalid region code. Use 'se', 'me', or 'ne'."
        /\ args.pref = "se" => ret.value = 4870 * Tenths(args.salt) + 608800
        /\ args.pref = "me" => ret.value = 4660 * Tenths(args.salt) + 670600
        /\ args.pref = "ne" => ret.value = 3910 * Tenths(args.salt) + 932700

C2_Witness ==
    /\ op = "calc_talk"
    /\ args.pref = "SE"
    /\ args.salt = Fix(33, 500000)
    /\ ret.raised
    /\ ret.exception = "ValueError"

\* C7: compute_initial_conditions calls the solver exactly once, with
\* par1 = alk of type 1 (alkalinity), par2 = pCO2 of type 4 (pCO2),
\* temperature = temp and salinity = sal, each value as it was given, and
\* returns what the solver returned
C7_SolverCalledOnce ==
    op = "compute_initial_conditions" =>
        /\ Len(solver_calls) = 1
        /\ solver_calls[1] = [par1        |-> args.alk,
                              par2        |-> args.pCO2,
                              par1_type   |-> 1,
                              par2_type   |-> 4,
                              temperature |-> args.temp,
                              salinity    |-> args.sal]
        /\ ret = pyco2_sys(solver_calls[1])

C7_Witness ==
    /\ op = "compute_initial_conditions"
    /\ args = [pCO2 |-> 395000, alk |-> 2300000, temp |-> 15000, sal |-> 33500]
    /\ Len(solver_calls) = 1
    /\ solver_calls[1].par1 = 2300000
    /\ solver_calls[1].par2 = 395000

---------------------------------------------------------------------------
(* Properties of the gas-exchange formulas *)

\* a value in milli-units rounded to 2 decimal places, in hundredths
Round2(x) == RoundDiv(x, 10)

\* C5 as stated: schmidt(20) rounds to 668.84
C5_AsStated ==
    (op = "schmidt" /\ args.temp_celsius = Fix(20, 0)) => Round2(ret) = 66884

\* C5, amended: schmidt(20) is 665.988, which rounds to 665.99
C5_Schmidt20 ==
    (op = "schmidt" /\ args.temp_celsius = Fix(20, 0)) =>
        /\ ret = 665988
        /\ Round2(ret) = 66599

C5_Witness ==
    /\ op = "schmidt"
    /\ args.temp_celsius = Fix(20, 0)
    /\ Round2(ret) = 66599

\* C8: piston_velocity(wind, T_C, S) is 0.24 * kappa(wind, T_C) * k0(T_C +
\* 273.15, S): kappa and the Schmidt number take the Celsius temperature, k0
\* the same temperature in Kelvin; and kappa(wind, T_C) is
\* 0.251 * wind^2 * (schmidt(T_C) / 660)^-0.5
C8_PistonVelocity ==
    op = "piston_velocity" =>
        LET kappa  == calculate_kappa(args.wind_speed, args.temp_celsius)
            kelvin == args.temp_celsius + Fix(273, 150000)
            ratio  == DivFix(schmidt(args.temp_celsius), 660 * THOUSAND)
        IN  /\ ret = MulFix(Dec(24, 2, kappa), calculate_k0(kelvin, args.salinity))
            /\ kappa = MulFix(Dec(251, 3, SqrFix(args.wind_speed)),
                              DivFix(SCALE, np_sqrt(ratio)))

\* piston_velocity(7.0, 15, 33.5) is 0.097729 in float64
C8_Witness ==
    /\ op = "piston_velocity"
    /\ args = [wind_speed |-> Fix(7, 0), temp_celsius |-> Fix(15, 0),
               salinity |-> Fix(33, 500000)]
    /\ Abs(ret - 97729) <= 10

====
